---- MODULE Spec2Model ----
(***************************************************************************)
(* Mention auto-reply engines of tweet.py (auto_reply_to_mentions and      *)
(* auto_reply_ai) with their persisted mention cursor, and the monthly     *)
(* token budget of token_manager.py.                                       *)
(*                                                                         *)
(* Encodings.  Mention ids are the positive integers 1..Len(feed).  The    *)
(* Python value None of last_id / since_id is NoId (0): the feed treats    *)
(* since_id=None as "everything", which is what since_id=0 selects when    *)
(* all ids are positive.  A cursor file is the sequence <<>> when it is    *)
(* missing or empty and <<n>> when it holds the decimal text of n.  A      *)
(* mention without an author handle has the screen name NoName.            *)
(*                                                                         *)
(* Environment.  The feed returns exactly the mentions above since_id,     *)
(* newest first.  Fetch and reply calls may raise any of ErrorKinds.  A    *)
(* cursor write may fail; save_last_id only logs that and the file keeps   *)
(* its previous content.  Reading an existing cursor file succeeds.  The   *)
(* process may be halted at any step (Crash) and started again (Restart),  *)
(* which keeps the files and loses everything in memory.  The stub         *)
(* generate_reply_via_api never raises.                                    *)
(***************************************************************************)
EXTENDS Integers, Sequences, FiniteSets, TLC

\* ---- bounds of the model ----
MaxId == 2
MaxRestarts == 1
MaxMonth == 1
MaxFails == 1
MaxOver == 1
MaxTimers == 2
MaxCalls == 2
MaxThreads == 2
MaxLines == 3

\* ---- program constants and inputs ----
MONTHLY_LIMIT == 500
NoId == 0
NoName == ""
ScreenNames == {"alice"}
ReplyMessage == "Thanks!"
StubReply == "Thanks for sharing - really interesting!"
Modes == {"fixed", "ai"}
ErrorKinds == {"Unauthorized", "Forbidden", "TooManyRequests", "TweepyException", "Exception"}
Outcomes == {"ok"} \cup ErrorKinds

VARIABLES
    feed,      \* the account's mentions: feed[id] is the author's screen name
    eng,       \* eng[e]: program counter and locals of engine e
    file,      \* file[e]: content of engine e's cursor file
    tok,       \* content of tokens.json
    now,       \* current calendar month (wall clock)
    hist,      \* hist[e]: observations of engine e (replies sent, attempts, ...)
    restarts,  \* number of process restarts so far
    plan,      \* SpecPair only: ids whose reply fails in the current joint cycle
    tokobs,    \* SpecTok: the latest token_manager call and what it returned
    clk,       \* SpecSched: wall clock, seconds since OriginYear-OriginMonth-01 00:00:00
    timers,    \* SpecSched: the threading.Timer objects created so far
    caller,    \* SpecSched: outcome of the latest scheduling call
    bulk,      \* SpecBulk: position and locals of bulk_post_from_file
    trace,     \* SpecBulk: posts attempted and sleeps taken, in order
    frequency_limit_tokens,  \* the argument auto_reply_ai was called with
    gui,       \* SpecGui: the window's reply_active flag and the threads it started
    cred,      \* SpecCred: the credential sources and the latest entry-point call
    dly,       \* SpecDelay: one compute_delay_seconds(time_hhmm=...) call
    gen        \* SpecGen: an AIReplyGenerator and its latest calls

vars == <<feed, eng, file, tok, now, hist, restarts, plan,
          tokobs, clk, timers, caller, bulk, trace,
          frequency_limit_tokens, gui, cred, dly, gen>>

\* the variables each specification leaves alone
engVars == <<feed, eng, file, hist, restarts, plan>>
tokVars == <<tokobs>>
schedVars == <<clk, timers, caller>>
bulkVars == <<bulk, trace>>
auxVars == <<frequency_limit_tokens, gui, cred, dly, gen>>

NoCall == [op |-> "none", n |-> 0, ok |-> FALSE, left |-> 0, ones |-> -1,
           before |-> [month |-> -1, tokens_left |-> 0], at |-> 0]
BulkOff == [pc |-> "off", tweets |-> <<>>, idx |-> 0, delay_seconds |-> 0, delay_minutes |-> 0]


\* a time_hhmm argument is a sequence of characters; None is NoneT
NoneT == <<"None">>
\* an optional integer argument is <<>> (None) or <<n>>
NoneInt == <<>>

NoRequest == [op |-> "none", invalid |-> FALSE, raised |-> FALSE, before |-> 0, made |-> 0]

TokIdle == tokobs = NoCall
SchedIdle == clk = 0 /\ timers = <<>> /\ caller = NoRequest
BulkIdle == bulk = BulkOff /\ trace = <<>>

\* auto_reply_ai's default for frequency_limit_tokens
DefaultLimit == 500
GuiOff == [reply_active |-> FALSE, threads |-> <<>>]
NoCred == [env |-> <<>>, const |-> <<>>, op |-> "none", failed |-> FALSE, transport |-> 0]
NoDelay == [t |-> 0, time_hhmm |-> NoneT, called |-> FALSE, seconds |-> 0, err |-> FALSE]
NoGen == [pc |-> "none", provider |-> "none", client |-> FALSE, raised |-> "",
          calls |-> 0, mention_text |-> {}, reply |-> ""]
AuxIdle ==
    /\ frequency_limit_tokens = DefaultLimit
    /\ gui = GuiOff /\ cred = NoCred /\ dly = NoDelay /\ gen = NoGen

\* ---- pure helpers ----

Reversed(s) == [i \in 1..Len(s) |-> s[Len(s) + 1 - i]]

\* what the feed returns for since_id: the ids above it, newest first
MentionsTimeline(fd, since_id) ==
    IF Len(fd) > since_id
    THEN [i \in 1..(Len(fd) - since_id) |-> Len(fd) + 1 - i]
    ELSE <<>>

\* variant: the batch is walked in the order the feed returned it
ProcessingOrderAsReturned(mentions) == mentions

\* the order in which one cycle walks a fetched batch
ProcessingOrder(mentions) == Reversed(mentions)

\* variant: the stored cursor is never recovered
LoadLastIdEmpty(f) == NoId

LoadLastId(f) == IF f = <<>> THEN NoId ELSE f[1]

SaveLastId(f, tweet_id, wok) == IF wok THEN <<tweet_id>> ELSE f

\* variant: the reply does not address the author
FormatReplyNoAt(screen_name, reply_text) == screen_name \o " " \o reply_text

FormatReply(screen_name, reply_text) == "@" \o screen_name \o " " \o reply_text

GenerateReplyViaApi == StubReply

ReplyTextOf(e) == IF e = "fixed" THEN ReplyMessage ELSE GenerateReplyViaApi

\* variant: the reset of a new month is returned but not written
GetTokensNoSave(data, month) ==
    IF data.month # month
    THEN [left |-> MONTHLY_LIMIT, data |-> data]
    ELSE [left |-> data.tokens_left, data |-> data]

\* token_manager.get_tokens: <<tokens_left returned, record persisted>>
GetTokens(data, month) ==
    IF data.month # month
    THEN [left |-> MONTHLY_LIMIT, data |-> [month |-> month, tokens_left |-> MONTHLY_LIMIT]]
    ELSE [left |-> data.tokens_left, data |-> data]

\* variant: each consumption takes twice the amount
ConsumeTokensTwice(data, month, n) ==
    LET d == IF data.month # month
             THEN [month |-> month, tokens_left |-> MONTHLY_LIMIT]
             ELSE data
    IN IF d.tokens_left < n
       THEN [ok |-> FALSE, data |-> data]
       ELSE [ok |-> TRUE, data |-> [d EXCEPT !.tokens_left = d.tokens_left - 2 * n]]

\* token_manager.consume_tokens(n): <<result, record persisted>>
ConsumeTokens(data, month, n) ==
    LET d == IF data.month # month
             THEN [month |-> month, tokens_left |-> MONTHLY_LIMIT]
             ELSE data
    IN IF d.tokens_left < n
       THEN [ok |-> FALSE, data |-> data]
       ELSE [ok |-> TRUE, data |-> [d EXCEPT !.tokens_left = d.tokens_left - n]]

\* token_manager.refill_monthly: the record persisted
RefillMonthly(month) == [month |-> month, tokens_left |-> MONTHLY_LIMIT]

\* variant: both engines keep their cursor in the fixed engine's file
StateFileShared(e) == "fixed"

\* the cursor file engine e loads and saves: last_mention_id.txt for the
\* fixed engine, last_mention_id_ai.txt for the AI engine (files are named
\* here after their engine)
StateFile(e) == e

\* ---- engine state ----

Ids == 1..MaxId

EngineStart(f) == [pc |-> "poll", last_id |-> LoadLastId(f), queue |-> <<>>, m |-> NoId]

EngineOff == [pc |-> "off", last_id |-> NoId, queue |-> <<>>, m |-> NoId]

HistStart(f, t) ==
    [file0 |-> f,                      \* cursor file content at the start
     tok0 |-> GetTokens(t, 0).left,    \* budget available at the start
     batch |-> <<>>,                   \* mentions returned by the latest fetch
     fetched |-> FALSE,                \* the latest fetch of this cycle succeeded
     attempts |-> <<>>,                \* ids whose reply was attempted this cycle
     failed |-> {},                    \* ids whose reply failed this cycle
     cyc |-> <<>>,                     \* replies sent this cycle
     sent |-> [i \in Ids |-> 0],       \* replies sent per id, all runs
     runSent |-> [i \in Ids |-> 0],    \* replies sent per id, this run
     lastOk |-> NoId,                  \* replied and saved, no later reply sent
     crashedOk |-> NoId,               \* lastOk at the latest halt
     firstSince |-> -1,                \* since_id of the first fetch of this run
     lostWrite |-> FALSE,              \* a cursor write failed or was cut off
     nfail |-> 0]                      \* reply calls that failed, all runs

\* the cursor file at the start: missing, or left by an earlier run
InitFiles == {<<>>, <<1>>}

\* tokens.json at the start: missing or from an earlier month, or of this
\* month with nothing or one token left
NoTokensFile == [month |-> -1, tokens_left |-> 0]

InitTok ==
    {NoTokensFile, [month |-> 0, tokens_left |-> 0], [month |-> 0, tokens_left |-> 1]}

Init ==
    /\ feed = <<>>
    /\ now = 0
    /\ \E e \in Modes, f \in InitFiles :
          /\ tok \in IF e = "ai" THEN InitTok ELSE {NoTokensFile}
          /\ file = [x \in Modes |-> IF x = e THEN f ELSE <<>>]
          /\ eng = [x \in Modes |-> IF x = e THEN EngineStart(f) ELSE EngineOff]
          /\ hist = [x \in Modes |-> HistStart(file[x], tok)]
    /\ restarts = 0
    /\ plan = {}
    /\ TokIdle /\ SchedIdle /\ BulkIdle /\ AuxIdle

\* ---- environment ----

\* a new mention arrives; the feed assigns the next id
NewMention ==
    /\ Len(feed) < MaxId
    /\ \E h \in ScreenNames \cup {NoName} : feed' = Append(feed, h)
    /\ UNCHANGED <<eng, file, tok, now, hist, restarts, plan, tokVars, schedVars, bulkVars, auxVars>>

\* the calendar month rolls over (only the token budget of the AI engine
\* reads the month)
Tick ==
    /\ eng["ai"].pc # "off"
    /\ now < MaxMonth
    /\ now' = now + 1
    /\ UNCHANGED <<feed, eng, file, tok, hist, restarts, plan, tokVars, schedVars, bulkVars, auxVars>>

\* ---- one engine, step by step ----

\* variant: a failed fetch ends the engine
AfterFetchStopOnError(en, fd, outcome) ==
    IF outcome = "ok"
    THEN [en EXCEPT !.pc = "loop",
                    !.queue = ProcessingOrder(MentionsTimeline(fd, en.last_id))]
    ELSE [en EXCEPT !.pc = "stopped"]

\* the engine record after api.mentions_timeline(since_id=last_id)
AfterFetch(en, fd, outcome) ==
    IF outcome = "ok"
    THEN [en EXCEPT !.pc = "loop",
                    !.queue = ProcessingOrder(MentionsTimeline(fd, en.last_id))]
    ELSE [en EXCEPT !.pc = "sleep"]

FetchSeen(h, en, fd, outcome) ==
    [h EXCEPT !.attempts = <<>>, !.failed = {}, !.cyc = <<>>,
              !.batch = IF outcome = "ok" THEN MentionsTimeline(fd, en.last_id) ELSE <<>>,
              !.fetched = (outcome = "ok"),
              !.firstSince = IF h.firstSince = -1 THEN en.last_id ELSE h.firstSince]

\* api.mentions_timeline(since_id=last_id): fills the loop, or raises
Fetch(e, outcome) ==
    /\ eng[e].pc = "poll"
    /\ eng' = [eng EXCEPT ![e] = AfterFetch(eng[e], feed, outcome)]
    /\ hist' = [hist EXCEPT ![e] = FetchSeen(hist[e], eng[e], feed, outcome)]
    /\ UNCHANGED <<feed, file, tok, now, restarts, plan, tokVars, schedVars, bulkVars, auxVars>>

\* where a mention with an author handle goes next
AfterPick(e) == IF e = "fixed" THEN "reply" ELSE "check"

\* head of "for m in reversed(mentions)": next mention, skip, or leave the loop
PickNext(e, en, fd) ==
    IF en.queue = <<>>
    THEN [en EXCEPT !.pc = "sleep", !.m = NoId]
    ELSE IF fd[Head(en.queue)] = NoName
         THEN [en EXCEPT !.queue = Tail(en.queue), !.m = NoId]
         ELSE [en EXCEPT !.pc = AfterPick(e), !.m = Head(en.queue),
                         !.queue = Tail(en.queue)]

LoopHead(e) ==
    /\ eng[e].pc = "loop"
    /\ eng' = [eng EXCEPT ![e] = PickNext(e, @, feed)]
    /\ UNCHANGED <<feed, file, tok, now, hist, restarts, plan, tokVars, schedVars, bulkVars, auxVars>>

\* variant: an empty budget skips the mention instead of stopping the engine
AfterBudgetCheckSkip(en, left) ==
    IF left <= 0
    THEN [en EXCEPT !.pc = "loop", !.m = NoId]
    ELSE [en EXCEPT !.pc = "consume"]

\* the engine record after get_tokens() returned left
AfterBudgetCheck(en, left) ==
    IF left <= 0
    THEN [en EXCEPT !.pc = "stopped", !.queue = <<>>, !.m = NoId]
    ELSE [en EXCEPT !.pc = "consume"]

\* AI mode: left, limit = get_tokens(); stop the engine when nothing is left
CheckTokens(e) ==
    /\ e = "ai"
    /\ eng[e].pc = "check"
    /\ LET r == GetTokens(tok, now)
       IN /\ tok' = r.data
          /\ eng' = [eng EXCEPT ![e] = AfterBudgetCheck(@, r.left)]
    /\ UNCHANGED <<feed, file, now, hist, restarts, plan, tokVars, schedVars, bulkVars, auxVars>>

\* AI mode: build the prompt, generate the text, ok = consume_tokens(1)
Consume(e) ==
    /\ e = "ai"
    /\ eng[e].pc = "consume"
    /\ LET r == ConsumeTokens(tok, now, 1)
       IN /\ tok' = r.data
          /\ eng' = [eng EXCEPT ![e] =
                        IF r.ok THEN [@ EXCEPT !.pc = "reply"]
                        ELSE [@ EXCEPT !.pc = "stopped", !.queue = <<>>, !.m = NoId]]
    /\ UNCHANGED <<feed, file, now, hist, restarts, plan, tokVars, schedVars, bulkVars, auxVars>>

\* variant: the cursor advances and is saved whether or not the reply went out
AfterReplyAlwaysAdvance(e, en, outcome) ==
    [en EXCEPT !.pc = "save", !.last_id = en.m]

\* variant: a successful reply leaves the cursor in memory where it was
AfterReplyKeepCursor(e, en, outcome) ==
    IF outcome = "ok"
    THEN [en EXCEPT !.pc = "save"]
    ELSE IF e = "fixed"
         THEN [en EXCEPT !.pc = "sleep", !.queue = <<>>, !.m = NoId]
         ELSE [en EXCEPT !.pc = "loop", !.m = NoId]

\* the engine record after api.update_status returned or raised
AfterReply(e, en, outcome) ==
    IF outcome = "ok"
    THEN [en EXCEPT !.pc = "save", !.last_id = en.m]
    ELSE IF e = "fixed"
         THEN [en EXCEPT !.pc = "sleep", !.queue = <<>>, !.m = NoId]
         ELSE [en EXCEPT !.pc = "loop", !.m = NoId]

\* api.update_status(status="@name text", in_reply_to_status_id=m.id)
Reply(e, outcome) ==
    /\ eng[e].pc = "reply"
    /\ outcome # "ok" => hist[e].nfail < MaxFails
    /\ LET m == eng[e].m
           r == [status |-> FormatReply(feed[m], ReplyTextOf(e)), in_reply_to |-> m]
           h == [hist[e] EXCEPT !.attempts = Append(@, m)]
       IN /\ eng' = [eng EXCEPT ![e] = AfterReply(e, @, outcome)]
          /\ hist' = [hist EXCEPT ![e] =
                         IF outcome = "ok"
                         THEN [h EXCEPT !.cyc = Append(@, r),
                                        !.sent[m] = @ + 1,
                                        !.runSent[m] = @ + 1,
                                        !.lastOk = NoId]
                         ELSE [h EXCEPT !.failed = @ \cup {m}, !.nfail = @ + 1]]
    /\ UNCHANGED <<feed, file, tok, now, restarts, plan, tokVars, schedVars, bulkVars, auxVars>>

\* save_last_id(last_id): the write may fail, which is only logged
Save(e, wok) ==
    /\ eng[e].pc = "save"
    /\ file' = [file EXCEPT ![StateFile(e)] = SaveLastId(@, eng[e].last_id, wok)]
    /\ eng' = [eng EXCEPT ![e].pc = "loop", ![e].m = NoId]
    /\ hist' = [hist EXCEPT ![e] =
                   IF wok THEN [@ EXCEPT !.lastOk = eng[e].m]
                   ELSE [@ EXCEPT !.lostWrite = TRUE]]
    /\ UNCHANGED <<feed, tok, now, restarts, plan, tokVars, schedVars, bulkVars, auxVars>>

\* time.sleep(delay), then the next cycle
Sleep(e) ==
    /\ eng[e].pc = "sleep"
    /\ eng' = [eng EXCEPT ![e].pc = "poll"]
    /\ UNCHANGED <<feed, file, tok, now, hist, restarts, plan, tokVars, schedVars, bulkVars, auxVars>>

\* the process is halted: everything in memory is lost, the files stay
Crash(e) ==
    /\ eng[e].pc \in {"poll", "loop", "check", "consume", "reply", "save", "sleep"}
    /\ restarts < MaxRestarts
    /\ restarts' = restarts + 1
    /\ eng' = [eng EXCEPT ![e] = [pc |-> "halted", last_id |-> NoId, queue |-> <<>>, m |-> NoId]]
    /\ hist' = [hist EXCEPT ![e] =
                   [@ EXCEPT !.crashedOk = hist[e].lastOk,
                             !.lostWrite = @ \/ eng[e].pc = "save"]]
    /\ UNCHANGED <<feed, file, tok, now, plan, tokVars, schedVars, bulkVars, auxVars>>

\* the engine function is started again: last_id = load_last_id()
Restart(e) ==
    /\ eng[e].pc = "halted"
    /\ eng' = [eng EXCEPT ![e] = EngineStart(file[StateFile(e)])]
    /\ hist' = [hist EXCEPT ![e] =
                   [@ EXCEPT !.runSent = [i \in Ids |-> 0], !.firstSince = -1,
                             !.lastOk = NoId, !.batch = <<>>, !.fetched = FALSE,
                             !.attempts = <<>>, !.failed = {}, !.cyc = <<>>]]
    /\ UNCHANGED <<feed, file, tok, now, restarts, plan, tokVars, schedVars, bulkVars, auxVars>>

Next ==
    \/ NewMention
    \/ Tick
    \/ \E e \in Modes, o \in Outcomes : Fetch(e, o)
    \/ \E e \in Modes : LoopHead(e)
    \/ \E e \in Modes : CheckTokens(e)
    \/ \E e \in Modes : Consume(e)
    \/ \E e \in Modes, o \in Outcomes : Reply(e, o)
    \/ \E e \in Modes, wok \in BOOLEAN : Save(e, wok)
    \/ \E e \in Modes : Sleep(e)
    \/ \E e \in Modes : Crash(e)
    \/ \E e \in Modes : Restart(e)

Spec == Init /\ [][Next]_vars

\* ---- one engine call that can be interrupted ----

\* where the engine is after a KeyboardInterrupt at position pc: inside the
\* try block of the loop the handler breaks and the function returns;
\* time.sleep(delay) is outside the try and lets the interrupt escape
AfterInterrupt(en) ==
    [en EXCEPT !.pc = IF en.pc = "sleep" THEN "escaped" ELSE "interrupted",
               !.queue = <<>>, !.m = NoId]

Ended == {"stopped", "interrupted", "escaped"}

InitRun ==
    /\ feed = <<>>
    /\ now = 0
    /\ \E e \in Modes, f \in InitFiles :
          /\ tok \in IF e = "ai" THEN InitTok ELSE {NoTokensFile}
          /\ file = [x \in Modes |-> IF x = e THEN f ELSE <<>>]
          /\ eng = [x \in Modes |-> IF x = e THEN EngineStart(f) ELSE EngineOff]
          /\ hist = [x \in Modes |-> HistStart(file[x], tok)]
          /\ frequency_limit_tokens \in IF e = "ai" THEN {1, DefaultLimit} ELSE {DefaultLimit}
    /\ restarts = 0
    /\ plan = {}
    /\ TokIdle /\ SchedIdle /\ BulkIdle
    /\ gui = GuiOff /\ cred = NoCred /\ dly = NoDelay /\ gen = NoGen

\* KeyboardInterrupt is delivered to the thread running engine e
Interrupt(e) ==
    /\ eng[e].pc \in {"poll", "loop", "check", "consume", "reply", "save", "sleep"}
    /\ eng' = [eng EXCEPT ![e] = AfterInterrupt(@)]
    /\ UNCHANGED <<feed, file, tok, now, hist, restarts, plan, tokVars, schedVars, bulkVars, auxVars>>

NextRun ==
    \/ NewMention
    \/ \E e \in Modes, o \in Outcomes : Fetch(e, o)
    \/ \E e \in Modes : LoopHead(e)
    \/ \E e \in Modes : CheckTokens(e)
    \/ \E e \in Modes : Consume(e)
    \/ \E e \in Modes, o \in Outcomes : Reply(e, o)
    \/ \E e \in Modes, wok \in BOOLEAN : Save(e, wok)
    \/ \E e \in Modes : Sleep(e)
    \/ \E e \in Modes : Interrupt(e)

\* the steps of engine e's own thread
EngineStep(e) ==
    \/ \E o \in Outcomes : Fetch(e, o)
    \/ LoopHead(e)
    \/ CheckTokens(e)
    \/ Consume(e)
    \/ \E o \in Outcomes : Reply(e, o)
    \/ \E wok \in BOOLEAN : Save(e, wok)
    \/ Sleep(e)

SpecRun == InitRun /\ [][NextRun]_vars

\* the thread running the engine is scheduled, and time.sleep(delay) returns
SpecRunFair == SpecRun /\ \A e \in Modes : WF_vars(EngineStep(e))

\* ---- both engines side by side on one feed ----

InitPair ==
    /\ feed = <<>>
    /\ tok = [month |-> 0, tokens_left |-> MONTHLY_LIMIT]
    /\ now = 0
    /\ \E f \in InitFiles :
          /\ file = [x \in Modes |-> f]
          /\ eng = [x \in Modes |-> EngineStart(f)]
          /\ hist = [x \in Modes |-> HistStart(f, tok)]
    /\ restarts = 0
    /\ plan = {}
    /\ TokIdle /\ SchedIdle /\ BulkIdle /\ AuxIdle

\* both engines poll at the same instant; the cycle's reply failures are fixed
JointFetch(outcome, fails) ==
    /\ \A e \in Modes : eng[e].pc = "poll"
    /\ plan' = fails
    /\ eng' = [e \in Modes |-> AfterFetch(eng[e], feed, outcome)]
    /\ hist' = [e \in Modes |-> FetchSeen(hist[e], eng[e], feed, outcome)]
    /\ UNCHANGED <<feed, file, tok, now, restarts, tokVars, schedVars, bulkVars, auxVars>>

PlannedReply(e, kind) ==
    Reply(e, IF eng[e].m \in plan THEN kind ELSE "ok")

NextPair ==
    \/ NewMention
    \/ \E o \in Outcomes, fails \in SUBSET (1..Len(feed)) : JointFetch(o, fails)
    \/ \E e \in Modes : LoopHead(e)
    \/ \E e \in Modes : CheckTokens(e)
    \/ \E e \in Modes : Consume(e)
    \/ \E e \in Modes, kind \in ErrorKinds : PlannedReply(e, kind)
    \/ \E e \in Modes : Save(e, TRUE)
    \/ \E e \in Modes : Sleep(e)

SpecPair == InitPair /\ [][NextPair]_vars

\* ---- both engines running at once, each at its own pace ----

InitBoth ==
    /\ feed = <<>>
    /\ tok = [month |-> 0, tokens_left |-> MONTHLY_LIMIT]
    /\ now = 0
    /\ \E f \in InitFiles, g \in InitFiles :
          /\ file = [x \in Modes |-> IF x = "fixed" THEN f ELSE g]
          /\ eng = [x \in Modes |-> EngineStart(file[StateFile(x)])]
          /\ hist = [x \in Modes |-> HistStart(file[StateFile(x)], tok)]
    /\ restarts = 0
    /\ plan = {}
    /\ TokIdle /\ SchedIdle /\ BulkIdle /\ AuxIdle

\* engine e's steps in a run where its replies and cursor writes succeed
SoundStep(e) ==
    \/ \E o \in Outcomes : Fetch(e, o)
    \/ LoopHead(e)
    \/ CheckTokens(e)
    \/ Consume(e)
    \/ Reply(e, "ok")
    \/ Save(e, TRUE)
    \/ Sleep(e)

NextBoth ==
    \/ NewMention
    \/ \E e \in Modes : SoundStep(e)

SpecBoth == InitBoth /\ [][NextBoth]_vars

\* ---- the token budget on its own: any sequence of calls ----

\* amounts passed to consume_tokens
ConsumeArgs == {-1, 0, 1, 2, MONTHLY_LIMIT + 1}

FullBudget == [month |-> 0, tokens_left |-> MONTHLY_LIMIT]

InitTokOnly ==
    /\ feed = <<>>
    /\ now = 0
    /\ tok \in {NoTokensFile, FullBudget}
    /\ file = [x \in Modes |-> <<>>]
    /\ eng = [x \in Modes |-> EngineOff]
    /\ hist = [x \in Modes |-> HistStart(<<>>, tok)]
    /\ restarts = 0
    /\ plan = {}
    /\ tokobs = [NoCall EXCEPT !.ones = IF tok = FullBudget THEN 0 ELSE -1]
    /\ SchedIdle /\ BulkIdle /\ AuxIdle

\* successful consumptions of 1 since the budget was last full (-1: other
\* amounts were consumed since)
OnesAfter(ones, before, after, month, n, ok) ==
    LET fresh == before.month # month
        base == IF fresh THEN 0 ELSE ones
    IN IF ~ok THEN ones
       ELSE IF n = 0 THEN base
       ELSE IF n = 1 /\ base >= 0 THEN base + 1
       ELSE -1

\* left, limit = get_tokens()
TokGet ==
    /\ LET r == GetTokens(tok, now)
       IN /\ tok' = r.data
          /\ tokobs' = [op |-> "get", n |-> 0, ok |-> TRUE, left |-> r.left,
                        ones |-> IF tok.month # now /\ r.data # tok THEN 0 ELSE tokobs.ones,
                        before |-> tok, at |-> now]
    /\ UNCHANGED <<now, engVars, schedVars, bulkVars, auxVars>>

\* variant: the last tokens of the budget are never handed out
TokConsumeKeepsLast(n) ==
    /\ LET c == ConsumeTokens(tok, now, n)
           r == IF c.ok /\ c.data.tokens_left = 0 THEN [ok |-> FALSE, data |-> tok] ELSE c
       IN /\ r.data.tokens_left <= MONTHLY_LIMIT + MaxOver
          /\ tok' = r.data
          /\ tokobs' = [op |-> "consume", n |-> n, ok |-> r.ok, left |-> 0,
                        ones |-> OnesAfter(tokobs.ones, tok, r.data, now, n, r.ok),
                        before |-> tok, at |-> now]
    /\ UNCHANGED <<now, engVars, schedVars, bulkVars, auxVars>>

\* ok = consume_tokens(n)
TokConsume(n) ==
    /\ LET r == ConsumeTokens(tok, now, n)
       IN /\ r.data.tokens_left <= MONTHLY_LIMIT + MaxOver
          /\ tok' = r.data
          /\ tokobs' = [op |-> "consume", n |-> n, ok |-> r.ok, left |-> 0,
                        ones |-> OnesAfter(tokobs.ones, tok, r.data, now, n, r.ok),
                        before |-> tok, at |-> now]
    /\ UNCHANGED <<now, engVars, schedVars, bulkVars, auxVars>>

\* refill_monthly()
TokRefill ==
    /\ tok' = RefillMonthly(now)
    /\ tokobs' = [op |-> "refill", n |-> 0, ok |-> TRUE, left |-> 0, ones |-> 0,
                  before |-> tok, at |-> now]
    /\ UNCHANGED <<now, engVars, schedVars, bulkVars, auxVars>>

\* the calendar month rolls over between two calls
TokMonthPasses ==
    /\ now < MaxMonth
    /\ now' = now + 1
    /\ UNCHANGED <<tok, engVars, tokVars, schedVars, bulkVars, auxVars>>

NextTok ==
    \/ TokGet
    \/ \E n \in ConsumeArgs : TokConsume(n)
    \/ TokRefill
    \/ TokMonthPasses

SpecTok == InitTokOnly /\ [][NextTok]_vars

\* ---- deferred posts: schedule_tweet, schedule_tweet_in_month, bulk_schedule_from_file ----

DigitChars == <<"0", "1", "2", "3", "4", "5", "6", "7", "8", "9">>
IsDigit(c) == \E i \in 1..10 : DigitChars[i] = c
DigitValue(c) == (CHOOSE i \in 1..10 : DigitChars[i] = c) - 1

\* str.split(":", 1)
SplitOnce(s) ==
    LET at == {i \in 1..Len(s) : s[i] = ":"}
    IN IF at = {} THEN <<s>>
       ELSE LET i == CHOOSE j \in at : \A k \in at : j <= k
            IN <<SubSeq(s, 1, i - 1), SubSeq(s, i + 1, Len(s))>>

\* int(str) of an optionally signed run of decimal digits
Unsigned(s) == IF s # <<>> /\ s[1] \in {"+", "-"} THEN Tail(s) ELSE s
IsIntLiteral(s) == Unsigned(s) # <<>> /\ \A i \in 1..Len(Unsigned(s)) : IsDigit(Unsigned(s)[i])
RECURSIVE DigitsValue(_)
DigitsValue(s) ==
    IF s = <<>> THEN 0
    ELSE 10 * DigitsValue(SubSeq(s, 1, Len(s) - 1)) + DigitValue(s[Len(s)])
IntOf(s) == IF s[1] = "-" THEN 0 - DigitsValue(Unsigned(s)) ELSE DigitsValue(Unsigned(s))

\* hour, minute = map(int, time_hhmm.split(":", 1)) followed by the range
\* test; every failure ends as ValueError
ParseHHMM(t) ==
    IF t = NoneT THEN [ok |-> FALSE, hour |-> 0, minute |-> 0]
    ELSE LET parts == SplitOnce(t)
         IN IF Len(parts) # 2 \/ ~IsIntLiteral(parts[1]) \/ ~IsIntLiteral(parts[2])
            THEN [ok |-> FALSE, hour |-> 0, minute |-> 0]
            ELSE LET hour == IntOf(parts[1])
                     minute == IntOf(parts[2])
                 IN [ok |-> 0 <= hour /\ hour <= 23 /\ 0 <= minute /\ minute <= 59,
                     hour |-> hour, minute |-> minute]

\* the instant clk = 0
OriginYear == 2026
OriginMonth == 11

IsLeap(y) == y % 4 = 0 /\ (y % 100 # 0 \/ y % 400 = 0)
\* calendar.monthrange(year, month)[1]
DaysIn(y, m) ==
    IF m = 2 THEN (IF IsLeap(y) THEN 29 ELSE 28)
    ELSE IF m \in {4, 6, 9, 11} THEN 30 ELSE 31

\* days from 1970-01-01 to y-m-d in the proleptic Gregorian calendar
DaysFromCivil(y, m, d) ==
    LET yy == IF m <= 2 THEN y - 1 ELSE y
        era == yy \div 400
        yoe == yy - era * 400
        mp == (m + 9) % 12
        doy == (153 * mp + 2) \div 5 + d - 1
        doe == yoe * 365 + yoe \div 4 - yoe \div 100 + doy
    IN era * 146097 + doe - 719468

\* datetime(year, month, day, hour, minute) on the model's clock
ClockOf(y, m, d, hour, minute) ==
    (DaysFromCivil(y, m, d) - DaysFromCivil(OriginYear, OriginMonth, 1)) * 86400
        + hour * 3600 + minute * 60

Max(a, b) == IF a >= b THEN a ELSE b

Raised == [err |-> TRUE, seconds |-> 0]
Delay(n) == [err |-> FALSE, seconds |-> n]

\* variant: a clock time equal to the current instant is scheduled for now
ComputeDelaySecondsSameInstant(delay_minutes, time_hhmm, t) ==
    LET p == ParseHHMM(time_hhmm)
        today == t - (t % 86400)
        run_time == today + p.hour * 3600 + p.minute * 60
    IN IF delay_minutes # NoneInt \/ time_hhmm = NoneT \/ time_hhmm = <<>> \/ ~p.ok
       THEN Raised
       ELSE IF run_time < t THEN Delay(run_time + 86400 - t)
       ELSE Delay(run_time - t)

\* twitter_utils.compute_delay_seconds called at instant t
ComputeDelaySeconds(delay_minutes, time_hhmm, t) ==
    LET falsy == time_hhmm = NoneT \/ time_hhmm = <<>>
    IN IF (delay_minutes = NoneInt /\ falsy) \/ (delay_minutes # NoneInt /\ ~falsy)
       THEN Raised
       ELSE IF delay_minutes # NoneInt
       THEN IF delay_minutes[1] < 0 THEN Raised
            ELSE Delay(Max(0, delay_minutes[1] * 60))
       ELSE LET p == ParseHHMM(time_hhmm)
                today == t - (t % 86400)
                run_time == today + p.hour * 3600 + p.minute * 60
            IN IF ~p.ok THEN Raised
               ELSE IF run_time <= t THEN Delay(run_time + 86400 - t)
               ELSE Delay(run_time - t)

\* twitter_utils.compute_delay_to_month_day_time called at instant t
ComputeDelayToMonthDayTime(year, month, day, time_hhmm, t) ==
    IF month \notin 1..12 THEN Raised
    ELSE IF day < 1 \/ day > DaysIn(year, month) THEN Raised
    ELSE LET p == ParseHHMM(time_hhmm)
         IN IF ~p.ok THEN Raised
            ELSE LET run_time == ClockOf(year, month, day, p.hour, p.minute)
                 IN IF run_time <= t THEN Raised ELSE Delay(run_time - t)

\* twitter_utils.read_tweets_from_file: the non-blank lines, in order
NonBlank(line) == line # "" /\ line # " "
ReadTweetsFromFile(lines) == SelectSeq(lines, NonBlank)

\* exception classes a handler for each raised kind may name
Ancestors(kind) ==
    IF kind \in {"Unauthorized", "Forbidden", "TooManyRequests"}
    THEN {kind, "HTTPException", "TweepyException", "Exception"}
    ELSE IF kind = "TweepyException" THEN {"TweepyException", "Exception"}
    ELSE {"Exception"}

\* variant: only the named Twitter errors are handled
HandlersOfNamedOnly(src) ==
    <<"Unauthorized", "Forbidden", "TooManyRequests", "TweepyException">>

\* the except clauses of _send, in order
HandlersOf(src) ==
    IF src = "bulk_schedule_from_file" THEN <<"Exception">>
    ELSE <<"Unauthorized", "Forbidden", "TooManyRequests", "TweepyException", "Exception">>

Caught(src, kind) == \E i \in DOMAIN HandlersOf(src) : HandlersOf(src)[i] \in Ancestors(kind)

\* variant: the callback reads the loop variable when it runs
ClosureMessageLate(tweets, i) == tweets[Len(tweets)]

\* the message bound by make_send(tmsg) for the i-th (0-based) tweet
ClosureMessage(tweets, i) == tweets[i + 1]

\* threading.Timer(seconds, _send) started at instant t
NewTimer(src, msg, seconds, t, idx, tweets, freq) ==
    [src |-> src, msg |-> msg, seconds |-> seconds, due |-> t + seconds,
     state |-> "waiting", posted |-> <<>>, result |-> "none", firedAt |-> -1,
     lateCancel |-> FALSE, idx |-> idx, tweets |-> tweets, freq |-> freq]

T1200 == <<"1", "2", ":", "0", "0">>
T2400 == <<"2", "4", ":", "0", "0">>
T1260 == <<"1", "2", ":", "6", "0">>
TNoColon == <<"1", "2", "0", "0">>
TWords == <<"a", "b", ":", "c", "d">>
TSeconds == <<"1", "2", ":", "0", "0", ":", "0", "0">>
TNegative == <<"-", "1", ":", "3", "0">>

\* <<delay_minutes, time_hhmm>> passed to schedule_tweet
ScheduleRequests ==
    {<<NoneInt, NoneT>>, <<NoneInt, <<>>>>, <<(<<1>>), T1200>>, <<(<<-1>>), NoneT>>,
     <<(<<0>>), <<>>>>, <<(<<1>>), NoneT>>, <<NoneInt, T1200>>,
     <<NoneInt, T2400>>, <<NoneInt, T1260>>, <<NoneInt, TNoColon>>, <<NoneInt, TWords>>,
     <<NoneInt, TSeconds>>, <<NoneInt, TNegative>>}

\* <<year, month, day, time_hhmm>> passed to schedule_tweet_in_month
MonthRequests ==
    {<<2026, 11, 1, T1200>>, <<2026, 11, 2, T1200>>, <<2026, 11, 31, T1200>>,
     <<2026, 11, 0, T1200>>, <<2026, 13, 1, T1200>>, <<2026, 11, 2, T2400>>,
     <<2026, 11, 2, TWords>>, <<2026, 11, 2, NoneT>>, <<2027, 2, 29, T1200>>,
     <<2026, 10, 31, T1200>>}

\* the lines of the file passed to bulk_schedule_from_file
BulkFiles == {<<>>, <<"">>, <<"a", "", "b">>}
Frequencies == {-1, 1}

StartClocks == {0}

InitSched ==
    /\ feed = <<>>
    /\ now = 0
    /\ tok = NoTokensFile
    /\ file = [x \in Modes |-> <<>>]
    /\ eng = [x \in Modes |-> EngineOff]
    /\ hist = [x \in Modes |-> HistStart(<<>>, tok)]
    /\ restarts = 0
    /\ plan = {}
    /\ TokIdle /\ BulkIdle /\ AuxIdle
    /\ clk \in StartClocks
    /\ timers = <<>>
    /\ caller = NoRequest

\* time_hhmm values that are not a 24h HH:MM time
InvalidTimes == {NoneT, <<>>, T2400, T1260, TNoColon, TWords, TSeconds, TNegative}
\* second of the day named by the remaining input, 12:00
SecondOfDay(t) == 43200

\* a schedule_tweet request that names no delay, two delays, a negative
\* delay or a time that is not a 24h HH:MM time
InvalidScheduleRequest(delay_minutes, time_hhmm) ==
    LET absent == time_hhmm \in {NoneT, <<>>}
    IN \/ delay_minutes = NoneInt /\ absent
       \/ delay_minutes # NoneInt /\ ~absent
       \/ delay_minutes # NoneInt /\ delay_minutes[1] < 0
       \/ delay_minutes = NoneInt /\ time_hhmm \in InvalidTimes

\* a schedule_tweet_in_month request whose day is not a day of the month,
\* whose time is not a 24h HH:MM time or whose instant is not after t
InvalidMonthRequest(year, month, day, time_hhmm, t) ==
    \/ month \notin 1..12
    \/ day \notin 1..DaysIn(year, month)
    \/ time_hhmm \in InvalidTimes
    \/ ClockOf(year, month, day, 0, 0) + SecondOfDay(time_hhmm) <= t

\* what the caller of a scheduling function sees
Request(op, invalid, r, made) ==
    [op |-> op, invalid |-> invalid, raised |-> r.err, before |-> Len(timers), made |-> made]

\* variant: the timer is created and started before the delay is validated
ScheduleTweetTimerFirst(message, delay_minutes, time_hhmm) ==
    /\ Len(timers) < MaxTimers
    /\ LET r == ComputeDelaySeconds(delay_minutes, time_hhmm, clk)
           invalid == InvalidScheduleRequest(delay_minutes, time_hhmm)
       IN /\ timers' = Append(timers, NewTimer("schedule_tweet", message, r.seconds, clk, -1, <<>>, 0))
          /\ caller' = Request("schedule_tweet", invalid, r, IF r.err THEN 0 ELSE 1)
    /\ UNCHANGED <<clk, tok, now, engVars, tokVars, bulkVars, auxVars>>

\* timer = schedule_tweet(message, delay_minutes=..., time_hhmm=...)
ScheduleTweet(message, delay_minutes, time_hhmm) ==
    /\ Len(timers) < MaxTimers
    /\ LET r == ComputeDelaySeconds(delay_minutes, time_hhmm, clk)
           invalid == InvalidScheduleRequest(delay_minutes, time_hhmm)
       IN IF r.err
          THEN /\ caller' = Request("schedule_tweet", invalid, r, 0)
               /\ UNCHANGED timers
          ELSE /\ timers' = Append(timers, NewTimer("schedule_tweet", message, r.seconds, clk, -1, <<>>, 0))
               /\ caller' = Request("schedule_tweet", invalid, r, 1)
    /\ UNCHANGED <<clk, tok, now, engVars, tokVars, bulkVars, auxVars>>

\* timer = schedule_tweet_in_month(message, year, month, day, time_hhmm)
ScheduleTweetInMonth(message, year, month, day, time_hhmm) ==
    /\ Len(timers) < MaxTimers
    /\ LET r == ComputeDelayToMonthDayTime(year, month, day, time_hhmm, clk)
           invalid == InvalidMonthRequest(year, month, day, time_hhmm, clk)
       IN IF r.err
          THEN /\ caller' = Request("schedule_tweet_in_month", invalid, r, 0)
               /\ UNCHANGED timers
          ELSE /\ timers' = Append(timers, NewTimer("schedule_tweet_in_month", message, r.seconds, clk, -1, <<>>, 0))
               /\ caller' = Request("schedule_tweet_in_month", invalid, r, 1)
    /\ UNCHANGED <<clk, tok, now, engVars, tokVars, bulkVars, auxVars>>

\* timers = bulk_schedule_from_file(file_path, frequency_minutes)
BulkScheduleFromFile(lines, frequency_minutes) ==
    LET tweets == ReadTweetsFromFile(lines)
        made == [j \in 1..Len(tweets) |->
                    NewTimer("bulk_schedule_from_file", ClosureMessage(tweets, j - 1),
                             Max(0, (j - 1) * frequency_minutes * 60), clk,
                             j - 1, tweets, frequency_minutes)]
    IN /\ Len(timers) + Len(tweets) <= MaxTimers
       /\ timers' = timers \o made
       /\ caller' = Request("bulk_schedule_from_file", FALSE, Delay(0), Len(made))
       /\ UNCHANGED <<clk, tok, now, engVars, tokVars, bulkVars, auxVars>>

\* variant: a failed post leaves the timer armed
FireAndRetry(i, outcome) ==
    /\ i \in DOMAIN timers
    /\ timers[i].state = "waiting"
    /\ timers[i].due <= clk
    /\ timers' = [timers EXCEPT ![i] =
          [timers[i] EXCEPT !.state = IF outcome = "ok" THEN "fired" ELSE "waiting",
                            !.posted = Append(timers[i].posted, timers[i].msg),
                            !.result = IF outcome = "ok" THEN "sent" ELSE "caught",
                            !.firedAt = clk]]
    /\ UNCHANGED <<clk, caller, tok, now, engVars, tokVars, bulkVars, auxVars>>

\* timer i reaches its due time and runs _send; post_tweet ends with outcome
Fire(i, outcome) ==
    /\ i \in DOMAIN timers
    /\ timers[i].state = "waiting"
    /\ timers[i].due <= clk
    /\ timers' = [timers EXCEPT ![i] =
          [timers[i] EXCEPT !.state = "fired",
                            !.posted = Append(timers[i].posted, timers[i].msg),
                            !.result = IF outcome = "ok" THEN "sent"
                                       ELSE IF Caught(timers[i].src, outcome) THEN "caught"
                                       ELSE "escaped",
                            !.firedAt = clk]]
    /\ UNCHANGED <<clk, caller, tok, now, engVars, tokVars, bulkVars, auxVars>>

\* variant: cancelling one handle of a batch cancels every pending timer
CancelAll(i) ==
    /\ i \in DOMAIN timers
    /\ timers' = [j \in DOMAIN timers |->
          IF timers[j].state = "waiting" THEN [timers[j] EXCEPT !.state = "cancelled"]
          ELSE IF j = i /\ timers[j].state = "fired" THEN [timers[j] EXCEPT !.lateCancel = TRUE]
          ELSE timers[j]]
    /\ UNCHANGED <<clk, caller, tok, now, engVars, tokVars, bulkVars, auxVars>>

\* timer.cancel() on a returned handle
Cancel(i) ==
    /\ i \in DOMAIN timers
    /\ timers' = [timers EXCEPT ![i] =
          IF timers[i].state = "waiting" THEN [timers[i] EXCEPT !.state = "cancelled"]
          ELSE IF timers[i].state = "fired" THEN [timers[i] EXCEPT !.lateCancel = TRUE]
          ELSE timers[i]]
    /\ UNCHANGED <<clk, caller, tok, now, engVars, tokVars, bulkVars, auxVars>>

Waiting == {i \in DOMAIN timers : timers[i].state = "waiting"}

\* time passes up to the next due time; no armed timer is overslept
Advance ==
    /\ Waiting # {}
    /\ \A i \in Waiting : timers[i].due > clk
    /\ clk' = (CHOOSE d \in {timers[i].due : i \in Waiting} :
                  \A i \in Waiting : d <= timers[i].due)
    /\ UNCHANGED <<timers, caller, tok, now, engVars, tokVars, bulkVars, auxVars>>

NextSched ==
    \/ \E q \in ScheduleRequests : ScheduleTweet("m", q[1], q[2])
    \/ \E q \in MonthRequests : ScheduleTweetInMonth("m", q[1], q[2], q[3], q[4])
    \/ \E lines \in BulkFiles, f \in Frequencies : BulkScheduleFromFile(lines, f)
    \/ \E i \in 1..MaxTimers, outcome \in Outcomes : Fire(i, outcome)
    \/ \E i \in 1..MaxTimers : Cancel(i)
    \/ Advance

SpecSched == InitSched /\ [][NextSched]_vars

\* a started timer thread runs when its interval has elapsed
SpecSchedFair ==
    /\ SpecSched
    /\ WF_vars(Advance)
    /\ \A i \in 1..MaxTimers : WF_vars(\E outcome \in Outcomes : Fire(i, outcome))

\* ---- bulk_post_from_file ----

\* files of up to MaxLines lines; line i is blank or the message named i
LineText(i, present) == IF present THEN ToString(i) ELSE ""
BulkPostFiles ==
    UNION {{[i \in 1..n |-> LineText(i, b[i])] : b \in [1..n -> BOOLEAN]} : n \in 0..MaxLines}
DelayMinutes == {-1, 0, 1, 2}

PostEvent(msg, outcome) == [kind |-> "post", msg |-> msg, outcome |-> outcome, seconds |-> 0]
SleepEvent(seconds) == [kind |-> "sleep", msg |-> "", outcome |-> "", seconds |-> seconds]

InitBulk ==
    /\ feed = <<>>
    /\ now = 0
    /\ tok = NoTokensFile
    /\ file = [x \in Modes |-> <<>>]
    /\ eng = [x \in Modes |-> EngineOff]
    /\ hist = [x \in Modes |-> HistStart(<<>>, tok)]
    /\ restarts = 0
    /\ plan = {}
    /\ TokIdle /\ SchedIdle /\ BulkIdle /\ AuxIdle

\* bulk_post_from_file(file_path, delay_minutes) up to the loop
BulkStart(lines, delay_minutes) ==
    /\ bulk.pc = "off"
    /\ LET tweets == ReadTweetsFromFile(lines)
       IN bulk' = [pc |-> IF tweets = <<>> THEN "done" ELSE "post",
                   tweets |-> tweets, idx |-> 1,
                   delay_seconds |-> Max(0, delay_minutes) * 60,
                   delay_minutes |-> delay_minutes]
    /\ UNCHANGED <<trace, tok, now, engVars, tokVars, schedVars, auxVars>>

\* variant: the loop ends at the first failed post
BulkPostAbortOnError(outcome) ==
    /\ bulk.pc = "post"
    /\ trace' = Append(trace, PostEvent(bulk.tweets[bulk.idx], outcome))
    /\ bulk' = IF outcome # "ok" THEN [bulk EXCEPT !.pc = "done"]
               ELSE IF bulk.idx < Len(bulk.tweets) /\ bulk.delay_seconds # 0
               THEN [bulk EXCEPT !.pc = "sleep"]
               ELSE IF bulk.idx < Len(bulk.tweets)
               THEN [bulk EXCEPT !.idx = bulk.idx + 1]
               ELSE [bulk EXCEPT !.pc = "done"]
    /\ UNCHANGED <<tok, now, engVars, tokVars, schedVars, auxVars>>

\* variant: the sleep is taken after every post, the last one included
BulkPostSleepAlways(outcome) ==
    /\ bulk.pc = "post"
    /\ trace' = Append(trace, PostEvent(bulk.tweets[bulk.idx], outcome))
    /\ bulk' = IF bulk.delay_seconds # 0
               THEN [bulk EXCEPT !.pc = "sleep"]
               ELSE IF bulk.idx < Len(bulk.tweets)
               THEN [bulk EXCEPT !.idx = bulk.idx + 1]
               ELSE [bulk EXCEPT !.pc = "done"]
    /\ UNCHANGED <<tok, now, engVars, tokVars, schedVars, auxVars>>

\* one pass of the loop body: post_tweet(t) ends with outcome, the handlers
\* log it, and the test before time.sleep decides where the loop goes
BulkPost(outcome) ==
    /\ bulk.pc = "post"
    /\ trace' = Append(trace, PostEvent(bulk.tweets[bulk.idx], outcome))
    /\ bulk' = IF outcome # "ok" /\ ~Caught("bulk_post_from_file", outcome)
               THEN [bulk EXCEPT !.pc = "raised"]
               ELSE IF bulk.idx < Len(bulk.tweets) /\ bulk.delay_seconds # 0
               THEN [bulk EXCEPT !.pc = "sleep"]
               ELSE IF bulk.idx < Len(bulk.tweets)
               THEN [bulk EXCEPT !.idx = bulk.idx + 1]
               ELSE [bulk EXCEPT !.pc = "done"]
    /\ UNCHANGED <<tok, now, engVars, tokVars, schedVars, auxVars>>

\* time.sleep(delay_seconds) returns
BulkSleep ==
    /\ bulk.pc = "sleep"
    /\ trace' = Append(trace, SleepEvent(bulk.delay_seconds))
    /\ bulk' = IF bulk.idx < Len(bulk.tweets)
               THEN [bulk EXCEPT !.pc = "post", !.idx = bulk.idx + 1]
               ELSE [bulk EXCEPT !.pc = "done"]
    /\ UNCHANGED <<tok, now, engVars, tokVars, schedVars, auxVars>>

NextBulk ==
    \/ \E lines \in BulkPostFiles, d \in DelayMinutes : BulkStart(lines, d)
    \/ \E outcome \in Outcomes : BulkPost(outcome)
    \/ BulkSleep

SpecBulk == InitBulk /\ [][NextBulk]_vars

\* ---- compute_delay_seconds(time_hhmm=...) on its own ----

\* the engine, its files and the clock of the other specifications at rest
EngineIdle ==
    /\ feed = <<>>
    /\ now = 0
    /\ tok = NoTokensFile
    /\ file = [x \in Modes |-> <<>>]
    /\ eng = [x \in Modes |-> EngineOff]
    /\ hist = [x \in Modes |-> HistStart(<<>>, tok)]
    /\ restarts = 0
    /\ plan = {}

\* datetime.now() at the call: seconds around midnight, 12:00 and 23:59 on
\* the first two days of the model's clock
DelayClocks ==
    {d * 86400 + s : d \in {0, 1},
                     s \in {0, 1, 59, 60, 43199, 43200, 43201, 43259, 43260, 86340, 86399}}

InitDelay ==
    /\ EngineIdle
    /\ TokIdle /\ SchedIdle /\ BulkIdle
    /\ frequency_limit_tokens = DefaultLimit /\ gui = GuiOff /\ cred = NoCred /\ gen = NoGen
    \* time_hhmm: 00:00, 7:5, 11:59, 12:00, 12:01, 23:59 and two that are rejected
    /\ \E t \in DelayClocks,
          h \in {<<"0", "0", ":", "0", "0">>, <<"7", ":", "5">>,
                 <<"1", "1", ":", "5", "9">>, T1200, <<"1", "2", ":", "0", "1">>,
                 <<"2", "3", ":", "5", "9">>, T2400, TWords} :
          dly = [t |-> t, time_hhmm |-> h, called |-> FALSE, seconds |-> 0, err |-> FALSE]

\* compute_delay_seconds(time_hhmm=dly.time_hhmm) with datetime.now() = dly.t
CallComputeDelay ==
    /\ ~dly.called
    /\ LET r == ComputeDelaySeconds(NoneInt, dly.time_hhmm, dly.t)
       IN dly' = [dly EXCEPT !.called = TRUE, !.seconds = r.seconds, !.err = r.err]
    /\ UNCHANGED <<tok, now, engVars, tokVars, schedVars, bulkVars,
                   frequency_limit_tokens, gui, cred, gen>>

SpecDelay == InitDelay /\ [][CallComputeDelay]_vars

\* ---- credentials and the entry points that need them ----

CredNames == {"API_KEY", "API_SECRET", "ACCESS_TOKEN", "ACCESS_TOKEN_SECRET"}
PLACEHOLDERS == {"YOUR_API_KEY", "YOUR_API_SECRET", "YOUR_ACCESS_TOKEN", "YOUR_ACCESS_TOKEN_SECRET"}

\* what an environment variable or a module constant may hold: nothing, the
\* placeholder the file ships with, or a value issued by the developer portal
CredValues(k) == {"", "YOUR_" \o k, "issued"}

\* variant: only empty values are reported missing
MissingEmptyOnly(c) ==
    {k \in CredNames : (IF c.env[k] # "" THEN c.env[k] ELSE c.const[k]) = ""}

\* the names load_credentials reports; each value is os.getenv(k) or the constant k
Missing(c) ==
    {k \in CredNames :
        LET v == IF c.env[k] # "" THEN c.env[k] ELSE c.const[k]
        IN v = "" \/ v \in PLACEHOLDERS}

\* load_credentials() raises ValueError
LoadCredentialsRaises(c) == Missing(c) # {}

\* post_tweet(message): did it raise, and how many transport calls it made;
\* steps says which of its two transport calls fails, if any
PostTweet(c, message, steps) ==
    IF message = "" THEN [failed |-> TRUE, transport |-> 0]
    ELSE IF LoadCredentialsRaises(c) THEN [failed |-> TRUE, transport |-> 0]
    ELSE IF steps = "verify_credentials fails" THEN [failed |-> TRUE, transport |-> 1]
    ELSE IF steps = "update_status fails" THEN [failed |-> TRUE, transport |-> 2]
    ELSE [failed |-> FALSE, transport |-> 2]

InitCred ==
    /\ EngineIdle
    /\ TokIdle /\ SchedIdle /\ BulkIdle
    /\ frequency_limit_tokens = DefaultLimit /\ gui = GuiOff /\ dly = NoDelay /\ gen = NoGen
    /\ \E env \in [CredNames -> UNION {CredValues(k) : k \in CredNames}],
          const \in [CredNames -> UNION {CredValues(k) : k \in CredNames}] :
          /\ \A k \in CredNames : env[k] \in CredValues(k) /\ const[k] \in CredValues(k)
          /\ cred = [env |-> env, const |-> const,
                     op |-> "none", failed |-> FALSE, transport |-> 0]

\* load_credentials()
CallLoadCredentials ==
    /\ cred' = [cred EXCEPT !.op = "load_credentials",
                            !.failed = LoadCredentialsRaises(cred), !.transport = 0]
    /\ UNCHANGED <<tok, now, engVars, tokVars, schedVars, bulkVars,
                   frequency_limit_tokens, gui, dly, gen>>

\* post_tweet(message)
CallPostTweet(message, steps) ==
    /\ LET r == PostTweet(cred, message, steps)
       IN cred' = [cred EXCEPT !.op = "post_tweet",
                               !.failed = r.failed, !.transport = r.transport]
    /\ UNCHANGED <<tok, now, engVars, tokVars, schedVars, bulkVars,
                   frequency_limit_tokens, gui, dly, gen>>

\* main(argv): exit status 1 is a failure; without a message the menu is
\* shown and left with option 7
CallMain(message, steps) ==
    /\ LET r == IF LoadCredentialsRaises(cred) THEN [failed |-> TRUE, transport |-> 0]
                ELSE IF message # "" THEN PostTweet(cred, message, steps)
                ELSE [failed |-> FALSE, transport |-> 0]
       IN cred' = [cred EXCEPT !.op = "main",
                               !.failed = r.failed, !.transport = r.transport]
    /\ UNCHANGED <<tok, now, engVars, tokVars, schedVars, bulkVars,
                   frequency_limit_tokens, gui, dly, gen>>

\* auto_reply_to_mentions / auto_reply_ai up to the first poll: get_api()
\* raises what load_credentials raises, otherwise mentions_timeline is called
CallAutoReply(e) ==
    /\ cred' = [cred EXCEPT !.op = IF e = "ai" THEN "auto_reply_ai" ELSE "auto_reply_to_mentions",
                            !.failed = LoadCredentialsRaises(cred),
                            !.transport = IF LoadCredentialsRaises(cred) THEN 0 ELSE 1]
    /\ UNCHANGED <<tok, now, engVars, tokVars, schedVars, bulkVars,
                   frequency_limit_tokens, gui, dly, gen>>

NextCred ==
    \/ CallLoadCredentials
    \/ \E message \in {"", "m"},
          steps \in {"ok", "verify_credentials fails", "update_status fails"} : CallPostTweet(message, steps)
    \/ \E message \in {"", "m"},
          steps \in {"ok", "verify_credentials fails", "update_status fails"} : CallMain(message, steps)
    \/ \E e \in Modes : CallAutoReply(e)

SpecCred == InitCred /\ [][NextCred]_vars

\* ---- AIReplyGenerator ----

\* provider_map.get(provider_name.lower(), AIProvider.NONE)
ProviderOf(provider_name) ==
    IF provider_name \in {"openai", "ollama", "groq"} THEN provider_name
    ELSE IF provider_name \in {"anthropic", "claude"} THEN "anthropic"
    ELSE "none"

\* _initialize_client: the exception it ends with, "" when it returns; every
\* client but ollama's needs an API key from the environment
InitializeClient(provider, has_pkg, has_key) ==
    IF ~has_pkg THEN "ImportError"
    ELSE IF provider \in {"openai", "anthropic", "groq"} /\ ~has_key THEN "ValueError"
    ELSE ""

\* a mention text is described by the keyword groups it contains, out of
\* "thanks", "help", "great" and "problem"
\* _generate_template_reply
GenerateTemplateReply(mention_text) ==
    IF "thanks" \in mention_text THEN "You're very welcome! Glad I could help!"
    ELSE IF "help" \in mention_text
    THEN "Happy to help! Feel free to DM me if you need more details."
    ELSE IF "great" \in mention_text
    THEN "Thank you so much! Really appreciate the kind words!"
    ELSE IF "problem" \in mention_text
    THEN "Sorry to hear that! Let me look into this for you. Can you DM me more details?"
    ELSE "Thanks for reaching out! I appreciate you connecting with me."

InitGen ==
    /\ EngineIdle
    /\ TokIdle /\ SchedIdle /\ BulkIdle
    /\ frequency_limit_tokens = DefaultLimit /\ gui = GuiOff /\ cred = NoCred /\ dly = NoDelay
    /\ gen = NoGen

\* create_reply_generator_from_config(provider_name): the constructor runs
\* _initialize_client for every provider but NONE and lets its ValueError and
\* ImportError through
CreateReplyGenerator(provider_name, has_pkg, has_key) ==
    /\ gen.pc = "none"
    /\ LET provider == ProviderOf(provider_name)
           exc == IF provider = "none" THEN ""
                  ELSE InitializeClient(provider, has_pkg, has_key)
       IN gen' = [gen EXCEPT !.pc = IF exc = "" THEN "ready" ELSE "raised",
                             !.provider = provider,
                             !.client = provider # "none" /\ exc = "",
                             !.raised = exc]
    /\ UNCHANGED <<tok, now, engVars, tokVars, schedVars, bulkVars,
                   frequency_limit_tokens, gui, cred, dly>>

\* generator.generate_reply(mention_text, author); throws: the provider call
\* fails, otherwise it returns the text "generated"
GenerateReply(mention_text, throws) ==
    /\ gen.pc = "ready"
    /\ gen.calls < MaxCalls
    /\ gen' = [gen EXCEPT !.calls = @ + 1,
                          !.mention_text = mention_text,
                          !.reply = IF gen.provider = "none" \/ throws
                                    THEN GenerateTemplateReply(mention_text)
                                    ELSE "generated"]
    /\ UNCHANGED <<tok, now, engVars, tokVars, schedVars, bulkVars,
                   frequency_limit_tokens, gui, cred, dly>>

NextGen ==
    \/ \E provider_name \in {"openai", "anthropic", "claude", "ollama", "groq", "none", "", "invalid"},
          has_pkg \in BOOLEAN, has_key \in BOOLEAN :
          CreateReplyGenerator(provider_name, has_pkg, has_key)
    \/ \E mention_text \in SUBSET {"thanks", "help", "great", "problem"}, throws \in BOOLEAN :
          GenerateReply(mention_text, throws)

SpecGen == InitGen /\ [][NextGen]_vars

\* ---- the windows' auto-reply controls ----

\* a thread the window started: the engine it runs, where the engine is, and
\* what happened since the window asked it to stop
NewThread(stream) ==
    [stream |-> stream, pc |-> "start", stop |-> FALSE, late |-> FALSE, repliedLate |-> FALSE]

InLoop == {"poll", "reply", "sleep"}

InitGui ==
    /\ EngineIdle
    /\ TokIdle /\ SchedIdle /\ BulkIdle
    /\ frequency_limit_tokens = DefaultLimit /\ cred = NoCred /\ dly = NoDelay /\ gen = NoGen
    /\ gui = GuiOff

\* gui_tkinter_backup._toggle_auto_reply: the button starts a thread running
\* auto_reply_to_mentions, or clears reply_active, which no thread reads
ToggleAutoReply(interval_ok, message_ok) ==
    /\ IF ~gui.reply_active
       THEN IF interval_ok /\ message_ok
            THEN /\ Len(gui.threads) < MaxThreads
                 /\ gui' = [reply_active |-> TRUE,
                            threads |-> Append(gui.threads, NewThread("fixed"))]
            ELSE UNCHANGED gui
       ELSE gui' = [reply_active |-> FALSE,
                    threads |-> [i \in DOMAIN gui.threads |->
                                    IF gui.threads[i].stream = "fixed" /\ gui.threads[i].pc \in InLoop \cup {"start"}
                                    THEN [gui.threads[i] EXCEPT !.stop = TRUE]
                                    ELSE gui.threads[i]]]
    /\ UNCHANGED <<tok, now, engVars, tokVars, schedVars, bulkVars,
                   frequency_limit_tokens, cred, dly, gen>>

\* gui.auto_reply: every use of the button starts a thread running auto_reply_ai
AutoReplyAI(spec_ok, interval_ok) ==
    /\ IF spec_ok /\ interval_ok
       THEN /\ Len(gui.threads) < MaxThreads
            /\ gui' = [gui EXCEPT !.threads = Append(gui.threads, NewThread("ai"))]
       ELSE UNCHANGED gui
    /\ UNCHANGED <<tok, now, engVars, tokVars, schedVars, bulkVars,
                   frequency_limit_tokens, cred, dly, gen>>

\* the thread's engine reaches its loop, or get_api() raises and the thread's
\* handler reports it (the tkinter window clears reply_active)
ThreadStart(i, ok) ==
    /\ i \in DOMAIN gui.threads
    /\ gui.threads[i].pc = "start"
    /\ gui' = [reply_active |-> IF ~ok /\ gui.threads[i].stream = "fixed" THEN FALSE
                                ELSE gui.reply_active,
               threads |-> [gui.threads EXCEPT ![i].pc = IF ok THEN "poll" ELSE "dead"]]
    /\ UNCHANGED <<tok, now, engVars, tokVars, schedVars, bulkVars,
                   frequency_limit_tokens, cred, dly, gen>>

\* the engine fetches: a batch to reply to, or nothing new
ThreadPoll(i, any) ==
    /\ i \in DOMAIN gui.threads
    /\ gui.threads[i].pc = "poll"
    /\ gui' = [gui EXCEPT !.threads[i].pc = IF any THEN "reply" ELSE "sleep",
                          !.threads[i].late = gui.threads[i].stop]
    /\ UNCHANGED <<tok, now, engVars, tokVars, schedVars, bulkVars,
                   frequency_limit_tokens, cred, dly, gen>>

\* the engine replies to the batch; the AI engine may find its budget spent
ThreadReply(i, budget) ==
    /\ i \in DOMAIN gui.threads
    /\ gui.threads[i].pc = "reply"
    /\ gui' = IF gui.threads[i].stream = "ai" /\ ~budget
              THEN [gui EXCEPT !.threads[i].pc = "dead"]
              ELSE [gui EXCEPT !.threads[i].pc = "sleep",
                               !.threads[i].repliedLate = @ \/ gui.threads[i].late]
    /\ UNCHANGED <<tok, now, engVars, tokVars, schedVars, bulkVars,
                   frequency_limit_tokens, cred, dly, gen>>

\* time.sleep(delay) returns
ThreadSleep(i) ==
    /\ i \in DOMAIN gui.threads
    /\ gui.threads[i].pc = "sleep"
    /\ gui' = [gui EXCEPT !.threads[i].pc = "poll"]
    /\ UNCHANGED <<tok, now, engVars, tokVars, schedVars, bulkVars,
                   frequency_limit_tokens, cred, dly, gen>>

NextGui ==
    \/ \E interval_ok \in BOOLEAN, message_ok \in BOOLEAN : ToggleAutoReply(interval_ok, message_ok)
    \/ \E spec_ok \in BOOLEAN, interval_ok \in BOOLEAN : AutoReplyAI(spec_ok, interval_ok)
    \/ \E i \in 1..MaxThreads, ok \in BOOLEAN : ThreadStart(i, ok)
    \/ \E i \in 1..MaxThreads, any \in BOOLEAN : ThreadPoll(i, any)
    \/ \E i \in 1..MaxThreads, budget \in BOOLEAN : ThreadReply(i, budget)
    \/ \E i \in 1..MaxThreads : ThreadSleep(i)

SpecGui == InitGui /\ [][NextGui]_vars

TypeOK ==
    /\ Len(feed) <= MaxId
    /\ \A e \in Modes : eng[e].last_id \in 0..MaxId

\* ---- observations used by the properties ----

RECURSIVE SumTo(_, _)
SumTo(f, n) == IF n = 0 THEN 0 ELSE f[n] + SumTo(f, n - 1)

\* replies sent by engine e over all runs
NumSent(e) == SumTo(hist[e].sent, MaxId)

\* reply calls made by engine e over all runs
Tried(e) == NumSent(e) + hist[e].nfail

\* tokens taken out of the budget since the start (while the month is the same)
Spent(e) == IF tok.month # 0 THEN 0 ELSE hist[e].tok0 - tok.tokens_left

\* tokens_left as the next get_tokens() call reports it
LeftNow == IF tok.month # now THEN MONTHLY_LIMIT ELSE tok.tokens_left

Range(q) == {q[i] : i \in DOMAIN q}

\* fetched mentions of the current cycle that have an author handle
Handled(e) == {i \in Range(hist[e].batch) : feed[i] # NoName}

Largest(S) == CHOOSE x \in S : \A y \in S : y <= x

\* the cycle of engine e is over and its fetch returned
CycleDone(e) == eng[e].pc = "sleep" /\ hist[e].fetched

\* every handled mention of the cycle got exactly one well-formed reply
RepliedOnce(e) ==
    \A i \in Handled(e) :
        /\ Cardinality({k \in DOMAIN hist[e].cyc : hist[e].cyc[k].in_reply_to = i}) = 1
        /\ \A k \in DOMAIN hist[e].cyc :
              hist[e].cyc[k].in_reply_to = i
                  => hist[e].cyc[k].status = "@" \o feed[i] \o " " \o ReplyTextOf(e)

\* ---- properties ----

\* C1: whenever mention a has been replied to and its cursor write completed,
\* and no later reply has been sent, the cursor file holds a; an engine
\* restarted after a halt in that situation starts from cursor a, makes its
\* first fetch with since_id = a and sends no reply to a.
C1_CrashSafeCursor ==
    \A e \in Modes :
        /\ hist[e].lastOk # NoId => file[e] = <<hist[e].lastOk>>
        /\ (hist[e].crashedOk # NoId /\ eng[e].pc # "halted") =>
              /\ hist[e].firstSince \in {-1, hist[e].crashedOk}
              /\ hist[e].firstSince = -1 => eng[e].last_id = hist[e].crashedOk
              /\ hist[e].runSent[hist[e].crashedOk] = 0

C1_Witness ==
    \E e \in Modes :
        /\ hist[e].crashedOk # NoId
        /\ hist[e].firstSince = hist[e].crashedOk
        /\ \E b \in Ids : b > hist[e].crashedOk /\ hist[e].runSent[b] = 1

C3_FailedStaysAboveCursor ==
    \A e \in Modes :
        eng[e].pc = "sleep" =>
            \A m \in hist[e].failed :
                /\ eng[e].last_id < m
                /\ LoadLastId(file[e]) < m

\* C4: when a cycle ends, every fetched mention with an author handle has had
\* its reply attempted, whatever replies failed.
C4_BatchContinuesAfterFailure ==
    \A e \in Modes :
        CycleDone(e) => \A i \in Handled(e) : i \in Range(hist[e].attempts)

C8_SameStateMachine ==
    (\A e \in Modes : eng[e].pc = "sleep") =>
        /\ hist["fixed"].attempts = hist["ai"].attempts
        /\ eng["fixed"].last_id = eng["ai"].last_id

\* C9: when the budget check finds nothing left the AI engine stops, and a
\* stopped engine never moves, fetches or replies again.
C9_BudgetExhaustionStops ==
    [][/\ (eng["ai"].pc = "check" /\ LeftNow <= 0
             /\ eng'["ai"].pc \notin {"check", "halted"})
          => (eng'["ai"].pc = "stopped" /\ hist'["ai"].sent = hist["ai"].sent
              /\ hist'["ai"].nfail = hist["ai"].nfail)
       /\ eng["ai"].pc = "stopped"
          => (eng'["ai"] = eng["ai"] /\ hist'["ai"].sent = hist["ai"].sent
              /\ hist'["ai"].nfail = hist["ai"].nfail)]_vars

C9_Witness ==
    /\ eng["ai"].pc = "stopped"
    /\ Len(hist["ai"].batch) >= 2
    /\ Len(hist["ai"].attempts) = 1
    /\ Len(feed) > eng["ai"].last_id

\* C10 as stated: between cycles, the tokens consumed equal the replies sent.
C10_TokenPerSentReply ==
    (eng["ai"].pc \in {"sleep", "stopped"} /\ now = 0 /\ restarts = 0)
        => Spent("ai") = NumSent("ai")

\* C10 amended: each reply attempt costs one token, taken before the reply
\* call, so the tokens consumed equal the reply attempts made (plus the one
\* about to be made) and are at least the replies sent.
C10_TokenPerAttempt ==
    (eng["ai"].pc # "off" /\ now = 0) =>
        /\ Spent("ai") >= Tried("ai")
        /\ Tried("ai") >= NumSent("ai")
        /\ restarts = 0 =>
              Spent("ai") = Tried("ai") + (IF eng["ai"].pc = "reply" THEN 1 ELSE 0)

C10_Witness ==
    /\ eng["ai"].pc = "sleep"
    /\ now = 0
    /\ Spent("ai") >= 2
    /\ NumSent("ai") = 1

\* tokens_left as a call made on record data in month at sees it after the
\* rollover check
LeftAfterRollover(data, at) == IF data.month # at THEN MONTHLY_LIMIT ELSE data.tokens_left

\* C11: after any sequence of get_tokens, consume_tokens(n) and
\* refill_monthly calls the persisted tokens_left lies in 0..monthly_limit.
C11_BudgetInRange ==
    tok # NoTokensFile => (0 <= tok.tokens_left /\ tok.tokens_left <= MONTHLY_LIMIT)

\* C12: consume_tokens(n) returns true and lowers the persisted tokens_left
\* by exactly n when tokens_left >= n after the rollover check, and otherwise
\* returns false and leaves the record as it was; after monthly_limit
\* successful consumptions of 1 in one month nothing is left, so a further
\* consume_tokens(1) returns false.
C12_ConsumeExact ==
    /\ tokobs.op = "consume" =>
          LET left == LeftAfterRollover(tokobs.before, tokobs.at)
          IN /\ tokobs.ok <=> left >= tokobs.n
             /\ tokobs.ok => tok = [month |-> tokobs.at, tokens_left |-> left - tokobs.n]
             /\ ~tokobs.ok => tok = tokobs.before
    /\ (tokobs.ones = MONTHLY_LIMIT /\ tok.month = now) => tok.tokens_left = 0

C12_Witness ==
    /\ tokobs.op = "consume"
    /\ tokobs.n = 1
    /\ ~tokobs.ok
    /\ tokobs.ones = MONTHLY_LIMIT
    /\ tok.tokens_left = 0
    /\ tok.month = now

\* C13: get_tokens called when the stored month is not the current one (or
\* there is no record) returns monthly_limit and persists a full record of
\* the current month; called in the stored month it returns tokens_left and
\* changes nothing.
C13_LazyRollover ==
    tokobs.op = "get" =>
        IF tokobs.before.month # tokobs.at
        THEN /\ tokobs.left = MONTHLY_LIMIT
             /\ tok = [month |-> tokobs.at, tokens_left |-> MONTHLY_LIMIT]
        ELSE /\ tokobs.left = tokobs.before.tokens_left
             /\ tok = tokobs.before

C13_Witness ==
    /\ tokobs.op = "get"
    /\ tokobs.at > 0
    /\ tokobs.before.month >= 0
    /\ tokobs.before.month # tokobs.at
    /\ tokobs.before.tokens_left < MONTHLY_LIMIT
    /\ tok.tokens_left = MONTHLY_LIMIT

\* ---- deferred posts ----

TimerIds == DOMAIN timers
IsWaiting(i) == i \in TimerIds /\ timers[i].state = "waiting"

\* C14: post_tweet is invoked at most once for every timer created by
\* schedule_tweet, schedule_tweet_in_month or bulk_schedule_from_file, and a
\* post that failed at fire time is not made again.
C14_FiresAtMostOnce ==
    \A i \in TimerIds :
        /\ Len(timers[i].posted) <= 1
        /\ timers[i].state # "fired" => timers[i].posted = <<>>
        /\ timers[i].result = "caught" => timers[i].state = "fired" /\ Len(timers[i].posted) = 1

C14_Witness ==
    \E i \in TimerIds :
        /\ timers[i].result = "caught"
        /\ timers[i].posted = <<timers[i].msg>>
        /\ clk > timers[i].firedAt

\* C15: a timer cancelled before its due time never invokes post_tweet;
\* cancelling a timer that has fired leaves its post as it was, and no
\* cancellation touches another timer.
C15_Cancellation ==
    /\ [](\A i \in TimerIds :
            /\ timers[i].state = "cancelled" => timers[i].posted = <<>>
            /\ timers[i].lateCancel => timers[i].state = "fired" /\ Len(timers[i].posted) = 1)
    /\ [][\A i \in 1..MaxTimers :
            Cancel(i) =>
               /\ \A j \in TimerIds \ {i} : timers'[j] = timers[j]
               /\ timers[i].state = "fired" =>
                     /\ timers'[i].state = "fired"
                     /\ timers'[i].posted = timers[i].posted
                     /\ timers'[i].result = timers[i].result
               /\ timers[i].state = "waiting" => timers'[i].state = "cancelled"]_vars

C15_Witness ==
    /\ \E i \in TimerIds : timers[i].state = "cancelled" /\ timers[i].due < clk
    /\ \E j \in TimerIds : timers[j].lateCancel /\ timers[j].posted = <<timers[j].msg>>

\* C16: an error of post_tweet inside a timer callback is caught there; the
\* step changes neither what the scheduling caller saw nor any other timer,
\* every timer that fires does so at its own due time, and a pending timer
\* still leaves the waiting state after another timer's post has failed.
C16_FailuresIsolated ==
    /\ [](\A i \in TimerIds :
            /\ timers[i].result # "escaped"
            /\ timers[i].state = "fired" => timers[i].firedAt = timers[i].due)
    /\ [][\A i \in 1..MaxTimers : \A kind \in ErrorKinds :
            Fire(i, kind) =>
               /\ caller' = caller
               /\ \A j \in TimerIds \ {i} : timers'[j] = timers[j]]_vars
    /\ \A i \in 1..MaxTimers :
          (IsWaiting(i) /\ \E j \in TimerIds : timers[j].result = "caught")
             ~> (i \in TimerIds /\ timers[i].state # "waiting")

C16_Witness ==
    \E i \in TimerIds, j \in TimerIds :
        /\ timers[i].result = "caught"
        /\ timers[j].result = "sent"
        /\ timers[j].firedAt > timers[i].firedAt
        /\ timers[j].firedAt = timers[j].due

BulkTimers == {i \in TimerIds : timers[i].src = "bulk_schedule_from_file"}

\* the timers returned by the latest bulk_schedule_from_file call are one per
\* message, in file order
BulkReturnsOnePerMessage ==
    caller.op = "bulk_schedule_from_file" =>
        /\ ~caller.raised
        /\ Len(timers) = caller.before + caller.made
        /\ \A n \in 1..caller.made :
              LET t == timers[caller.before + n]
              IN t.src = "bulk_schedule_from_file" /\ t.idx = n - 1 /\ Len(t.tweets) = caller.made

\* a bulk timer that has fired posted its own message and nothing else
BulkPostsOwnMessage ==
    \A i \in BulkTimers :
        timers[i].state = "fired" => timers[i].posted = <<timers[i].tweets[timers[i].idx + 1]>>

\* C17 (as stated): bulk_schedule_from_file returns one timer per message;
\* the i-th has delay i*f*60 seconds and posts exactly the i-th message.
C17_BulkDelays ==
    /\ BulkReturnsOnePerMessage
    /\ BulkPostsOwnMessage
    /\ \A i \in BulkTimers : timers[i].seconds = timers[i].idx * timers[i].freq * 60

\* C17 (amended): bulk_schedule_from_file returns one timer per message; the
\* i-th has delay max(0, i*f*60) seconds and posts exactly the i-th message.
C17_BulkDelaysClamped ==
    /\ BulkReturnsOnePerMessage
    /\ BulkPostsOwnMessage
    /\ \A i \in BulkTimers : timers[i].seconds = Max(0, timers[i].idx * timers[i].freq * 60)

C17_Witness ==
    /\ \A i \in BulkTimers : timers[i].state = "fired"
    /\ \E i \in BulkTimers : timers[i].idx = 0 /\ timers[i].posted = <<"a">>
    /\ \E i \in BulkTimers :
          timers[i].idx = 1 /\ timers[i].posted = <<"b">> /\ timers[i].seconds = 60

\* C18: a schedule_tweet or schedule_tweet_in_month call with invalid delay,
\* time or day input raises to the caller and creates no timer.
C18_InvalidRejected ==
    (caller.op \in {"schedule_tweet", "schedule_tweet_in_month"} /\ caller.invalid) =>
        /\ caller.raised
        /\ caller.made = 0
        /\ Len(timers) = caller.before

C18_Witness ==
    /\ caller.op = "schedule_tweet_in_month"
    /\ caller.invalid
    /\ caller.raised
    /\ caller.before = 1
    /\ timers[1].state = "waiting"

\* ---- bulk_post_from_file ----

PostsOf(tr) == SelectSeq(tr, LAMBDA ev : ev.kind = "post")
SleepsOf(tr) == SelectSeq(tr, LAMBDA ev : ev.kind = "sleep")
MsgsOf(tr) == [j \in 1..Len(PostsOf(tr)) |-> PostsOf(tr)[j].msg]

\* C19: bulk_post_from_file attempts every message of the file exactly
\* once, in file order, whatever posts fail; no failure ends the loop.
C19_EveryMessageOnce ==
    /\ bulk.pc # "raised"
    /\ bulk.pc # "off" => MsgsOf(trace) = SubSeq(bulk.tweets, 1, Len(PostsOf(trace)))
    /\ bulk.pc = "done" => MsgsOf(trace) = bulk.tweets

C19_Witness ==
    /\ bulk.pc = "done"
    /\ Len(bulk.tweets) >= 2
    /\ PostsOf(trace)[1].outcome # "ok"
    /\ MsgsOf(trace) = bulk.tweets

\* C20: with k >= 1 messages and a positive delay there are exactly k-1
\* sleeps, one between each two consecutive posts and none after the last;
\* with a delay of 0 or less there is no sleep; with k = 0 there is neither a
\* post nor a sleep.
C20_SleepPlacement ==
    LET k == Len(bulk.tweets)
    IN /\ \A j \in 1..Len(trace) :
             IF bulk.delay_minutes > 0
             THEN trace[j].kind = (IF j % 2 = 1 THEN "post" ELSE "sleep")
             ELSE trace[j].kind = "post"
       /\ bulk.pc = "done" =>
             /\ Len(PostsOf(trace)) = k
             /\ Len(SleepsOf(trace)) = (IF k >= 1 /\ bulk.delay_minutes > 0 THEN k - 1 ELSE 0)
             /\ trace # <<>> => trace[Len(trace)].kind = "post"

C20_Witness ==
    /\ bulk.pc = "done"
    /\ Len(bulk.tweets) >= 2
    /\ bulk.delay_minutes > 0
    /\ Len(SleepsOf(trace)) = Len(bulk.tweets) - 1
    /\ trace[Len(trace)].kind = "post"

\* ---- order of a scheduled batch ----

\* timers i < j were created by one bulk_schedule_from_file call
SameBatch(i, j) ==
    /\ i \in BulkTimers /\ j \in BulkTimers
    /\ i < j
    /\ timers[j].idx - timers[i].idx = j - i
    /\ timers[i].tweets = timers[j].tweets

\* C30 (as stated): the messages of a bulk-scheduled batch are posted in file
\* order for every frequency, 0 and negative ones included: no message is
\* posted while an earlier message of its batch is still waiting to be posted.
C30_BulkFileOrder ==
    \A i \in TimerIds, j \in TimerIds :
        (SameBatch(i, j) /\ timers[j].state = "fired") => timers[i].state # "waiting"

\* ---- compute_delay_seconds ----

\* second of the day a valid time_hhmm names
TargetSecond(h) == ParseHHMM(h).hour * 3600 + ParseHHMM(h).minute * 60

\* the instants HH:MM:00 of the days the model's clock covers
Occurrences(h) == {d * 86400 + TargetSecond(h) : d \in 0..3}

\* C27: for a valid HH:MM, compute_delay_seconds(time_hhmm=...) returns d with
\* 0 < d <= 86400, and now + d is the first instant HH:MM:00 strictly after
\* now (tomorrow's when HH:MM:00 is the current instant or already past).
C27_NextOccurrence ==
    (dly.called /\ ParseHHMM(dly.time_hhmm).ok) =>
        /\ ~dly.err
        /\ 0 < dly.seconds /\ dly.seconds <= 86400
        /\ dly.t + dly.seconds \in Occurrences(dly.time_hhmm)
        /\ \A o \in Occurrences(dly.time_hhmm) : o > dly.t => dly.t + dly.seconds <= o

\* 12:00 asked at 12:00:00 exactly: the post is a full day away
C27_Witness ==
    /\ dly.called /\ ~dly.err
    /\ dly.time_hhmm = T1200
    /\ dly.t % 86400 = 43200
    /\ dly.seconds = 86400

\* ---- credentials ----

\* some credential is unset, empty or still the placeholder
CredentialsUnusable ==
    \E k \in CredNames :
        LET v == IF cred.env[k] # "" THEN cred.env[k] ELSE cred.const[k]
        IN v # "issued"

\* C26: with a missing or placeholder credential load_credentials raises, and
\* post_tweet, main, auto_reply_to_mentions and auto_reply_ai each fail or
\* return before any transport call.
C26_NoTransportWithoutCredentials ==
    (cred.op # "none" /\ CredentialsUnusable) => (cred.failed /\ cred.transport = 0)

\* three credentials issued through the environment and one still the
\* placeholder constant: post_tweet raised without touching the transport
C26_Witness ==
    /\ cred.op = "post_tweet"
    /\ cred.failed /\ cred.transport = 0
    /\ Missing(cred) = {"ACCESS_TOKEN_SECRET"}
    /\ cred.env["ACCESS_TOKEN_SECRET"] = ""
    /\ cred.const["ACCESS_TOKEN_SECRET"] = "YOUR_ACCESS_TOKEN_SECRET"
    /\ cred.env["API_KEY"] = "issued"

\* ---- AI reply generation ----

\* C28 (as stated): when the AI collaborator is unconfigured or throws, the
\* reply text comes from the deterministic template: reply generation never
\* raises to its caller, and a generator asked for a reply has produced one.
C28_TemplateFallback ==
    /\ gen.pc # "raised"
    /\ gen.calls > 0 =>
          gen.reply \in {"generated"} \cup {GenerateTemplateReply(t) : t \in SUBSET {"thanks", "help", "great", "problem"}}

\* ---- starting and stopping from the window ----

\* C22 (as stated): once a stop has been requested the engine sends no reply
\* in any cycle after the one in progress.
C22_StopTakesEffect ==
    \A i \in DOMAIN gui.threads : ~gui.threads[i].repliedLate

\* the engine loops running on the cursor file of a stream
LoopsOn(stream) ==
    {i \in DOMAIN gui.threads : gui.threads[i].stream = stream /\ gui.threads[i].pc \in InLoop}

\* C23 (as stated): under any sequence of start and stop requests at most one
\* engine loop is active on a given cursor file.
C23_OneLoopPerCursorFile ==
    \A stream \in Modes : Cardinality(LoopsOn(stream)) <= 1

\* ---- interruption ----

\* C21 (as stated): an interrupt delivered in any state of the engine
\* (fetching, replying or sleeping) makes the engine function return
\* normally; it never leaves the function as an uncaught exception.
C21_InterruptReturnsNormally ==
    \A e \in Modes : eng[e].pc # "escaped"

\* C29 (as stated): started in a fresh month with frequency_limit_tokens = L,
\* auto_reply_ai attempts at most L AI replies.
C29_HonoursFrequencyLimit ==
    hist["ai"].tok0 = MONTHLY_LIMIT => Tried("ai") <= frequency_limit_tokens

\* ---- isolated failures ----

\* a fetch or a reply of engine e's current cycle has failed
FailedInCycle(e) ==
    \/ hist[e].failed # {}
    \/ eng[e].pc = "sleep" /\ ~hist[e].fetched /\ hist[e].firstSince # -1

\* what one step may do to engine e after a failure, in its sleep, and when it ends
FailureStep(e) ==
    /\ \A o \in ErrorKinds : Fetch(e, o) => eng'[e].pc = "sleep"
    /\ \A o \in ErrorKinds : Reply(e, o) => eng'[e].pc \in {"sleep", "loop"}
    /\ (eng[e].pc = "sleep" /\ eng'[e].pc # "sleep") => (eng'[e].pc = "poll" \/ Interrupt(e))
    /\ (eng[e].pc \notin Ended /\ eng'[e].pc \in Ended) =>
          \/ Interrupt(e)
          \/ e = "ai" /\ eng[e].pc \in {"check", "consume"} /\ LeftNow <= 0

\* C25: a failed fetch or reply never terminates the engine: the engine goes
\* on to its sleep and polls again, and it ends only through an interrupt or,
\* in AI mode, an exhausted budget.
C25_KeepsRunning ==
    /\ [][\A e \in Modes : FailureStep(e)]_vars
    /\ \A e \in Modes :
          FailedInCycle(e) ~> (eng[e].pc = "poll" \/ eng[e].pc \in Ended)

\* the fixed engine polls again after a cycle in which a reply failed
C25_Witness ==
    /\ eng["fixed"].pc = "poll"
    /\ hist["fixed"].failed # {}
    /\ hist["fixed"].nfail > 0

\* ---- stream independence ----

Other(e) == IF e = "fixed" THEN "ai" ELSE "fixed"

\* C24: with both engines running at once, the cursor file of an engine is
\* written only by that engine's own save, with the cursor that engine holds;
\* a step of one engine leaves the other engine's cursor, position and file
\* as they were, and the fixed engine leaves the token budget alone: each
\* cursor moves exactly as it does when its engine runs alone.
C24_StreamsIndependent ==
    [][\A e \in Modes :
          /\ file'[e] # file[e] =>
                /\ eng[e].pc = "save" /\ eng'[e].pc = "loop"
                /\ file'[e] = <<eng[e].last_id>>
                /\ eng'[Other(e)] = eng[Other(e)]
          /\ eng'[e] # eng[e] =>
                /\ eng'[Other(e)] = eng[Other(e)]
                /\ file'[Other(e)] = file[Other(e)]
                /\ hist'[Other(e)] = hist[Other(e)]
                /\ e = "fixed" => tok' = tok]_vars

\* both engines have replied to the same mentions and hold different cursors
\* in their files
C24_Witness ==
    /\ file["fixed"] = <<2>>
    /\ file["ai"] = <<1>>
    /\ hist["fixed"].file0 = <<>>
    /\ hist["ai"].file0 = <<>>

====
